---- MODULE Spec2Model ----
(***************************************************************************)
(* Model of src/file_comparison.py: read_file, compare_files, save_report  *)
(* and the __main__ block that chains them.                                *)
(*                                                                         *)
(* A run is: read file 1, read file 2, compare (validate the key column,   *)
(* index both tables, find the numeric columns, loop over the sorted key   *)
(* universe, return the three row lists), write the report.  An exception  *)
(* ends the run in a pc value named after what was raised.                 *)
(*                                                                         *)
(* Numbers with two decimals (match_percentage) are kept as integer        *)
(* hundredths: 100.0 is 10000, 33.33 is 3333.                              *)
(***************************************************************************)
EXTENDS Integers, Sequences, FiniteSets, TLC

\* ---------------------------------------------------------------- bounds
\* keys are 1..MaxKey
MaxKey == 2
\* a table holds at most MaxCells non-key cells (rows * columns)
MaxCells == 2
\* SpecPct: widest table (columns) and most mismatches a summary row is built from
MaxTotal == 20001
MaxMism == 2

VARIABLES ext, pc, reads, df1, df2, all_keys, all_columns, numeric_cols,
          summary_rows, detailed_rows, missing_rows, sheets

vars == <<ext, pc, reads, df1, df2, all_keys, all_columns, numeric_cols,
          summary_rows, detailed_rows, missing_rows, sheets>>

\* ------------------------------------------------------------ cell values
\* A cell is a number, a string, NaN (an empty cell as pandas loads it), or
\* None (what compare_files substitutes for a column the table lacks).
Num(n) == [kind |-> "num", val |-> n]
\* Str(0) is the text "x"; Str(n), n > 0, is the decimal text of n.
Str(n) == [kind |-> "str", val |-> n]
NaN == [kind |-> "nan", val |-> 0]
None == [kind |-> "none", val |-> 0]
\* a mismatch row whose dict has no "difference" entry
Absent == [kind |-> "absent", val |-> 0]

\* what a loaded file can hold in a cell: the numbers 1 and 2, the texts
\* "x" and "1", or nothing
CellValues == {Num(1), Num(2), Str(0), Str(1), NaN}

\* column names other than the key column, in sorted() order
ColumnOrder == <<"a", "b">>
ColumnNames == {ColumnOrder[n] : n \in 1..Len(ColumnOrder)}
Keys == 1..MaxKey

\* What the two paths of a run end with: file 1 is a CSV export or a file
\* read_file rejects, file 2 a workbook or a file read_file rejects.
Exts1 == {".csv", ".txt"}
Exts2 == {".xlsx", ".txt"}

\* A loaded table.  has_key: the key column is among its columns; index:
\* its key values (unique); columns: its other columns; cell: its cells.
\* A table without the key column cannot be indexed: its rows stay out of
\* the model, the run aborts before looking at them.
TablesOf(ks, cs) ==
  {[has_key |-> TRUE, index |-> ks, columns |-> cs, cell |-> f] :
      f \in [ks \X cs -> CellValues]}

Tables ==
  UNION {TablesOf(ks, cs) :
           <<ks, cs>> \in {p \in (SUBSET Keys) \X (SUBSET ColumnNames) :
                              Cardinality(p[1]) * Cardinality(p[2]) <= MaxCells}}
  \cup {[has_key |-> FALSE, index |-> {}, columns |-> cs, cell |-> <<>>] :
           cs \in SUBSET ColumnNames}

NoTable == [has_key |-> FALSE, index |-> {}, columns |-> {}, cell |-> <<>>]

\* ---------------------------------------------------------------- read_file
\* float(v): fails on None and on text that is no number
FloatOk(v) == v.kind \in {"num", "nan"} \/ (v.kind = "str" /\ v.val > 0)

\* pd.read_csv types a column from its text: all numerals (or empty) loads
\* as numbers, anything else loads every non-empty cell as text.
\* pd.read_excel keeps each cell's own type, so a column may mix them.
CsvColumn(t, c) ==
  LET cells == {t.cell[<<k, c>>] : k \in t.index}
  IN \/ \A v \in cells : v.kind \in {"num", "nan"}
     \/ /\ \A v \in cells : v.kind \in {"str", "nan"}
        /\ \E v \in cells : ~FloatOk(v)

CsvTables == {t \in Tables : \A c \in t.columns : CsvColumn(t, c)}

\* lines 21-24: the parser the extension selects
TablesFor(e) == IF e = ".csv" THEN CsvTables ELSE Tables

\* read_file with the ".xlsx" branch lost
Supported_CsvOnly(e) == e = ".csv"

Supported(e) == e = ".csv" \/ e = ".xlsx"

\* ------------------------------------------------------------ pure helpers
\* sorted() with the order reversed
RECURSIVE SortedInts_Desc(_)
SortedInts_Desc(S) ==
  IF S = {} THEN <<>>
  ELSE LET m == CHOOSE x \in S : \A y \in S : x >= y
       IN <<m>> \o SortedInts_Desc(S \ {m})

RECURSIVE SortedInts(_)
SortedInts(S) ==
  IF S = {} THEN <<>>
  ELSE LET m == CHOOSE x \in S : \A y \in S : x <= y
       IN <<m>> \o SortedInts(S \ {m})

SortedColumns(S) == SelectSeq(ColumnOrder, LAMBDA c : c \in S)

\* df[col].dtype is a number type: the column has rows and every cell is a
\* number or empty (a column without rows loads as object)
IsNumeric(d, col) ==
  /\ d.index # {}
  /\ \A k \in d.index : d.cell[<<k, col>>].kind \in {"num", "nan"}

\* lines 57-59: df1[col] / df2[col] raise KeyError for a column the table lacks
NumericRaises(d1, d2, cols) ==
  \E n \in 1..Len(cols) :
     \/ cols[n] \notin d1.columns
     \/ (~IsNumeric(d1, cols[n]) /\ cols[n] \notin d2.columns)

NumericColsOf(d1, d2, cols) ==
  SelectSeq(cols, LAMBDA c : (c \in d1.columns /\ IsNumeric(d1, c))
                              \/ (c \in d2.columns /\ IsNumeric(d2, c)))

\* val1 != val2
PyNe(a, b) == IF a.kind = "nan" \/ b.kind = "nan" THEN TRUE ELSE a # b

\* the subtraction with its operands exchanged
Difference_Reversed(v1, v2) ==
  IF ~FloatOk(v2) \/ ~FloatOk(v1) THEN None
  ELSE IF v1.kind = "nan" \/ v2.kind = "nan" THEN NaN
  ELSE Num(v1.val - v2.val)

\* float(val2) - float(val1) inside the try / except
Difference(v1, v2) ==
  IF ~FloatOk(v2) \/ ~FloatOk(v1) THEN None
  ELSE IF v1.kind = "nan" \/ v2.kind = "nan" THEN NaN
  ELSE Num(v2.val - v1.val)

CellAt(d, key, col) == IF col \in d.columns THEN d.cell[<<key, col>>] ELSE None

\* lines 71-89 for one key present in both tables
RECURSIVE MismatchRows(_, _, _, _, _, _)
MismatchRows(d1, d2, key, cols, numeric, n) ==
  IF n > Len(cols) THEN <<>>
  ELSE LET col == cols[n]
           val1 == CellAt(d1, key, col)
           val2 == CellAt(d2, key, col)
           isnum == \E j \in 1..Len(numeric) : numeric[j] = col
           row == [key |-> key, column_name |-> col, file1 |-> val1,
                   file2 |-> val2,
                   difference |-> IF isnum THEN Difference(val1, val2)
                                  ELSE Absent]
       IN (IF PyNe(val1, val2) THEN <<row>> ELSE <<>>)
          \o MismatchRows(d1, d2, key, cols, numeric, n + 1)

\* round(x, 2) of the double x = num / den * 100 (num, den ints), in hundredths.
\* Off a tie the double's error cannot move the result.  On an exact tie the
\* double may sit on either side of it, so both neighbours are outcomes.
Round2Outcomes(num, den) ==
  LET n == num * 10000
      q == n \div den
      r == n % den
  IN IF 2 * r < den THEN {q}
     ELSE IF 2 * r > den THEN {q + 1}
     ELSE {q, q + 1}

\* the percentage cut to two decimals instead of rounded
MatchPctOutcomes_Truncated(total, mism) == {((total - mism) * 10000) \div total}

\* line 92
MatchPctOutcomes(total, mism) == Round2Outcomes(total - mism, total)

\* the value round() returns: a function of its argument
MatchPct(total, mism) == CHOOSE p \in MatchPctOutcomes(total, mism) : TRUE

\* lines 94-101
SummaryRow(key, total, mism, pct) ==
  [key |-> key, total_columns |-> total, matched_columns |-> total - mism,
   mismatched_columns |-> mism, match_percentage |-> pct,
   status |-> IF mism = 0 THEN "MATCH" ELSE "MISMATCH"]

\* lines 64 and 67
MissingRow(key, where) == [key |-> key, present_in |-> where]

\* the validation with "and" in place of "or"
KeyColumnMissing_Both(d1, d2) == ~d1.has_key /\ ~d2.has_key

\* line 40
KeyColumnMissing(d1, d2) == ~d1.has_key \/ ~d2.has_key

\* lines 61-101: the loop over all_keys from position n on, given the rows
\* collected so far; ends "ok" or in the exception an iteration raises
RECURSIVE LoopFrom(_, _, _, _, _, _, _)
LoopFrom(d1, d2, keys, cols, numeric, n, acc) ==
  IF n > Len(keys) THEN acc
  ELSE LET key == keys[n] IN
    IF key \notin d1.index
    THEN LoopFrom(d1, d2, keys, cols, numeric, n + 1,
           [acc EXCEPT !.missing = Append(@, MissingRow(key, "file2_only"))])
    ELSE IF key \notin d2.index
    THEN LoopFrom(d1, d2, keys, cols, numeric, n + 1,
           [acc EXCEPT !.missing = Append(@, MissingRow(key, "file1_only"))])
    ELSE LET rows == MismatchRows(d1, d2, key, cols, numeric, 1)
             mism == Len(rows)
             total == Len(cols)
         IN IF total = 0
            THEN [acc EXCEPT !.outcome = "ZeroDivisionError"]
            ELSE LoopFrom(d1, d2, keys, cols, numeric, n + 1,
                   [acc EXCEPT !.detailed = @ \o rows,
                               !.summary = Append(@,
                                  SummaryRow(key, total, mism, MatchPct(total, mism)))])

\* lines 36-107: compare_files once both tables are loaded
CompareResult(d1, d2) ==
  LET empty == [outcome |-> "ok", all_keys |-> <<>>, all_columns |-> <<>>,
                numeric_cols |-> <<>>, summary |-> <<>>, detailed |-> <<>>,
                missing |-> <<>>]
  IN IF KeyColumnMissing(d1, d2)
     THEN [empty EXCEPT !.outcome = "ConfigurationError"]
     ELSE LET keys == SortedInts(d1.index \cup d2.index)
              cols == SortedColumns(d1.columns \cup d2.columns)
              indexed == [empty EXCEPT !.all_keys = keys, !.all_columns = cols]
          IN IF NumericRaises(d1, d2, cols)
             THEN [indexed EXCEPT !.outcome = "KeyError"]
             ELSE LET numeric == NumericColsOf(d1, d2, cols)
                  IN LoopFrom(d1, d2, keys, cols, numeric, 1,
                              [indexed EXCEPT !.numeric_cols = numeric])

\* ------------------------------------------------------------------- Init
Init ==
  /\ ext \in {<<e1, e2>> : e1 \in Exts1, e2 \in Exts2}
  /\ pc = "read1"
  /\ reads = <<>>
  /\ df1 = NoTable
  /\ df2 = NoTable
  /\ all_keys = <<>>
  /\ all_columns = <<>>
  /\ numeric_cols = <<>>
  /\ summary_rows = <<>>
  /\ detailed_rows = <<>>
  /\ missing_rows = <<>>
  /\ sheets = <<>>

\* ---------------------------------------------------------------- actions
\* line 32: df1 = read_file(file1)
ReadFile1 ==
  /\ pc = "read1"
  /\ IF Supported(ext[1])
     THEN /\ \E t \in TablesFor(ext[1]) : df1' = t
          /\ reads' = Append(reads, 1)
          /\ pc' = "read2"
     ELSE /\ pc' = "UnsupportedFormat"
          /\ UNCHANGED <<df1, reads>>
  /\ UNCHANGED <<ext, df2, all_keys, all_columns, numeric_cols, summary_rows,
                 detailed_rows, missing_rows, sheets>>

\* line 33: df2 = read_file(file2)
ReadFile2 ==
  /\ pc = "read2"
  /\ IF Supported(ext[2])
     THEN /\ \E t \in TablesFor(ext[2]) : df2' = t
          /\ reads' = Append(reads, 2)
          /\ pc' = "compare"
     ELSE /\ pc' = "UnsupportedFormat"
          /\ UNCHANGED <<df2, reads>>
  /\ UNCHANGED <<ext, df1, all_keys, all_columns, numeric_cols, summary_rows,
                 detailed_rows, missing_rows, sheets>>

\* lines 36-107 and 170: the rest of compare_files; on "ok" the three row
\* lists go back to __main__, otherwise the exception ends the run
Compare ==
  /\ pc = "compare"
  /\ \E r \in {CompareResult(df1, df2)} :
        /\ pc' = IF r.outcome = "ok" THEN "returned" ELSE r.outcome
        /\ all_keys' = r.all_keys
        /\ all_columns' = r.all_columns
        /\ numeric_cols' = r.numeric_cols
        /\ summary_rows' = r.summary
        /\ detailed_rows' = r.detailed
        /\ missing_rows' = r.missing
  /\ UNCHANGED <<ext, reads, df1, df2, sheets>>

\* s is a reordering of t
IsPermutation(s, t) ==
  /\ Len(s) = Len(t)
  /\ \E f \in [1..Len(s) -> 1..Len(s)] :
        /\ \A a, b \in 1..Len(s) : a # b => f[a] # f[b]
        /\ \A a \in 1..Len(s) : s[a] = t[f[a]]

\* line 118: summary_df.sort_values("match_percentage"); rows with equal
\* percentages may come out in any order
SortedByPct(rows) ==
  {s \in [1..Len(rows) -> {rows[n] : n \in 1..Len(rows)}] :
     /\ IsPermutation(s, rows)
     /\ \A a \in 1..Len(rows) - 1 :
           s[a].match_percentage <= s[a + 1].match_percentage}

\* lines 112-153: a frame built from no rows has no columns, so sorting it
\* by "match_percentage" raises KeyError
SaveReport ==
  /\ pc = "returned"
  /\ IF summary_rows = <<>>
     THEN /\ pc' = "KeyErrorSort"
          /\ UNCHANGED sheets
     ELSE /\ \E s \in SortedByPct(summary_rows) :
               sheets' = <<[name |-> "SUMMARY", rows |-> s],
                           [name |-> "DETAILED_MISMATCHES", rows |-> detailed_rows],
                           [name |-> "MISSING_KEYS", rows |-> missing_rows]>>
          /\ pc' = "saved"
  /\ UNCHANGED <<ext, reads, df1, df2, all_keys, all_columns, numeric_cols,
                 summary_rows, detailed_rows, missing_rows>>

Next ==
  \/ ReadFile1
  \/ ReadFile2
  \/ Compare
  \/ SaveReport

Spec == Init /\ [][Next]_vars

\* ------------------------------------------------- the summary row alone
\* Lines 91-101 for one key of a table pair with `total` columns of which
\* `mism` differ: tables far wider than the ones Spec enumerates.
InitPct ==
  /\ ext = <<".csv", ".xlsx">>
  /\ pc = "summarize"
  /\ reads = <<1, 2>>
  /\ df1 = NoTable
  /\ df2 = NoTable
  /\ all_keys = <<1>>
  /\ all_columns = <<>>
  /\ numeric_cols = <<>>
  /\ summary_rows = <<>>
  /\ detailed_rows = <<>>
  /\ missing_rows = <<>>
  /\ sheets = <<>>

Summarize ==
  /\ pc = "summarize"
  /\ \E total \in 1..MaxTotal :
       \E mism \in {m \in 0..MaxMism : m <= total} \cup
                   {m \in (total - MaxMism)..total : m >= 0} :
         \E p \in MatchPctOutcomes(total, mism) :
            summary_rows' = <<SummaryRow(1, total, mism, p)>>
  /\ pc' = "summarized"
  /\ UNCHANGED <<ext, reads, df1, df2, all_keys, all_columns, numeric_cols,
                 detailed_rows, missing_rows, sheets>>

NextPct == Summarize

SpecPct == InitPct /\ [][NextPct]_vars

\* ================================================================ claims
\* compare_files has returned its three row lists
Returned == pc \in {"returned", "saved", "KeyErrorSort"}
\* compare_files has ended, by return or by exception
Compared == Returned \/ pc \in {"ConfigurationError", "KeyError", "ZeroDivisionError"}

SupportedExts == {".csv", ".xlsx"}
SeqSet(s) == {s[n] : n \in 1..Len(s)}
RowsOfKey(rows, k) == {n \in 1..Len(rows) : rows[n].key = k}
ColPos(c) == CHOOSE n \in 1..Len(ColumnOrder) : ColumnOrder[n] = c
HasValue(v) == v.kind \in {"num", "str"}

\* C1: for every pair of tables that both hold the key column, whatever
\* their other columns, compare_files returns, and every key of the union
\* has exactly one summary row and no missing row when it is in both tables,
\* exactly one missing row and no summary row when it is in one.
C1_KeyPartition ==
  (Compared /\ df1.has_key /\ df2.has_key) =>
     /\ Returned
     /\ \A k \in df1.index \cup df2.index :
          IF k \in df1.index \cap df2.index
          THEN /\ Cardinality(RowsOfKey(summary_rows, k)) = 1
               /\ RowsOfKey(missing_rows, k) = {}
          ELSE /\ Cardinality(RowsOfKey(missing_rows, k)) = 1
               /\ RowsOfKey(summary_rows, k) = {}

\* C2: a key of both tables whose cells are identical in every column of the
\* column universe (empty in both counts as identical) has a summary row
\* with no mismatch, 100.0 and MATCH, and no mismatch row; a table compared
\* with a copy of itself gives no mismatch row and no missing row.
C2_IdenticalCellsMatch ==
  Returned =>
     /\ \A k \in df1.index \cap df2.index :
          (\A c \in df1.columns \cup df2.columns :
               /\ c \in df1.columns \cap df2.columns
               /\ df1.cell[<<k, c>>] = df2.cell[<<k, c>>])
          => /\ \E n \in RowsOfKey(summary_rows, k) :
                   /\ summary_rows[n].mismatched_columns = 0
                   /\ summary_rows[n].match_percentage = 10000
                   /\ summary_rows[n].status = "MATCH"
             /\ RowsOfKey(detailed_rows, k) = {}
     /\ df1 = df2 => (detailed_rows = <<>> /\ missing_rows = <<>>)

\* C3: with a non-key column that only one table has, compare_files still
\* completes, and for every key of both tables that column is a mismatch,
\* with a mismatch row, whenever the table that has it holds a value there.
C3_OneSidedColumn ==
  (Compared /\ df1.has_key /\ df2.has_key /\ df1.columns # df2.columns
            /\ df1.index \cap df2.index # {}) =>
     /\ pc # "KeyError"
     /\ Returned =>
          \A k \in df1.index \cap df2.index :
            \A c \in (df1.columns \cup df2.columns) \ (df1.columns \cap df2.columns) :
               HasValue(IF c \in df1.columns THEN df1.cell[<<k, c>>]
                        ELSE df2.cell[<<k, c>>])
               => \E n \in RowsOfKey(detailed_rows, k) :
                     detailed_rows[n].column_name = c

\* the percentage is the quotient rounded to two decimals, within [0, 100]
PctRounded(row) ==
  LET exact == (row.total_columns - row.mismatched_columns) * 10000
      dist == row.match_percentage * row.total_columns - exact
  IN /\ row.total_columns >= 1
     /\ row.mismatched_columns \in 0..row.total_columns
     /\ 2 * dist <= row.total_columns
     /\ -2 * dist <= row.total_columns
     /\ row.match_percentage \in 0..10000

\* C4 as stated: in every summary row the percentage is the rounded
\* quotient, lies in [0, 100], and is 100 exactly when nothing mismatched.
C4_HundredIffNoMismatch ==
  \A n \in 1..Len(summary_rows) :
     /\ PctRounded(summary_rows[n])
     /\ summary_rows[n].match_percentage = 10000
           <=> summary_rows[n].mismatched_columns = 0

\* C4 as amended: in every summary row the percentage is the rounded
\* quotient and lies in [0, 100]; it is 100 when nothing mismatched, and
\* when it is 100 at most one column in 20000 mismatched, so below 20000
\* columns it is 100 exactly when nothing mismatched.
C4_MatchPercentage ==
  \A n \in 1..Len(summary_rows) :
     LET row == summary_rows[n] IN
     /\ PctRounded(row)
     /\ row.mismatched_columns = 0 => row.match_percentage = 10000
     /\ row.match_percentage = 10000
           => row.mismatched_columns * 20000 <= row.total_columns
     /\ row.total_columns < 20000
           => (row.match_percentage = 10000 <=> row.mismatched_columns = 0)

\* a percentage that rounding has moved: 2 of 3 columns match, 66.67
C4_Witness ==
  \E n \in 1..Len(summary_rows) :
     /\ summary_rows[n].total_columns = 3
     /\ summary_rows[n].mismatched_columns = 1
     /\ summary_rows[n].match_percentage = 6667

\* float(v2) - float(v1) for two values float() accepts
FloatDifference(v1, v2) ==
  IF v1.kind = "nan" \/ v2.kind = "nan" THEN NaN ELSE Num(v2.val - v1.val)
\* float(v) succeeds: a number, an empty cell (nan), or numeric text
Parses(v) == v.kind = "num" \/ v.kind = "nan" \/ (v.kind = "str" /\ v.val # 0)
\* the column's dtype is a number type in one of the tables
NumericSomewhere(c) ==
  \/ c \in df1.columns /\ df1.index # {}
       /\ \A k \in df1.index : df1.cell[<<k, c>>].kind # "str"
  \/ c \in df2.columns /\ df2.index # {}
       /\ \A k \in df2.index : df2.cell[<<k, c>>].kind # "str"

\* C5 as stated: every mismatch row carries float(value 2) - float(value 1)
\* whenever both values parse as numbers, and no difference otherwise.
C5_DifferenceWheneverBothParse ==
  Returned =>
     \A n \in 1..Len(detailed_rows) :
        LET r == detailed_rows[n] IN
        IF Parses(r.file1) /\ Parses(r.file2)
        THEN r.difference = FloatDifference(r.file1, r.file2)
        ELSE r.difference \in {None, Absent}

\* C5 as amended: every mismatch row carries float(value 2) - float(value 1)
\* whenever its column is numeric in at least one table and both values
\* parse as numbers, and no difference otherwise.
C5_DifferenceOnNumericColumn ==
  Returned =>
     \A n \in 1..Len(detailed_rows) :
        LET r == detailed_rows[n] IN
        IF NumericSomewhere(r.column_name) /\ Parses(r.file1) /\ Parses(r.file2)
        THEN r.difference = FloatDifference(r.file1, r.file2)
        ELSE r.difference \in {None, Absent}

\* one mismatch row with a computed, non-zero difference and one whose
\* value did not parse
C5_Witness ==
  /\ Returned
  /\ \E n \in 1..Len(detailed_rows) :
        /\ detailed_rows[n].difference.kind = "num"
        /\ detailed_rows[n].difference.val # 0
  /\ \E n \in 1..Len(detailed_rows) : detailed_rows[n].difference = None

Negated(d) == IF d.kind = "num" THEN Num(-d.val) ELSE d

\* C6: compare_files on the two tables exchanged reports the same
\* (key, column) mismatches with every difference negated, the same summary
\* rows and the same missing keys.
C6_SwapSymmetry ==
  Returned =>
     \E r \in {CompareResult(df2, df1)} :
        /\ r.outcome = "ok"
        /\ r.summary = summary_rows
        /\ {m.key : m \in SeqSet(r.missing)} = {m.key : m \in SeqSet(missing_rows)}
        /\ Len(r.detailed) = Len(detailed_rows)
        /\ \A n \in 1..Len(detailed_rows) :
              /\ r.detailed[n].key = detailed_rows[n].key
              /\ r.detailed[n].column_name = detailed_rows[n].column_name
              /\ r.detailed[n].difference = Negated(detailed_rows[n].difference)

\* C7 as stated: when a path has an unrecognized extension the error is
\* raised before any data is read from either file.
C7_NoReadBeforeFormatError ==
  pc = "UnsupportedFormat" => reads = <<>>

\* C7 as amended: a file with an unrecognized extension is never read and
\* ends the run with UnsupportedFormat; file 2 is never read before that
\* error, and file 1 has been read before it exactly when file 1's own
\* extension is recognized.
C7_FormatErrorBeforeOwnRead ==
  /\ \A n \in 1..Len(reads) : ext[reads[n]] \in SupportedExts
  /\ pc = "UnsupportedFormat" =>
        /\ ext[1] \notin SupportedExts \/ ext[2] \notin SupportedExts
        /\ reads = IF ext[1] \in SupportedExts THEN <<1>> ELSE <<>>
  /\ pc \notin {"read1", "read2", "UnsupportedFormat"} =>
        (ext[1] \in SupportedExts /\ ext[2] \in SupportedExts)

\* file 2's extension is rejected after file 1 was read
C7_Witness ==
  /\ pc = "UnsupportedFormat"
  /\ reads = <<1>>
  /\ ext[2] \notin SupportedExts

\* C8: with the key column absent from a table, compare_files raises the
\* ConfigurationError after both files are loaded, with no summary, mismatch
\* or missing row produced and no report written; past that point both
\* tables hold the key column.
C8_ConfigurationError ==
  /\ pc = "ConfigurationError" =>
        /\ reads = <<1, 2>>
        /\ ~df1.has_key \/ ~df2.has_key
        /\ summary_rows = <<>> /\ detailed_rows = <<>> /\ missing_rows = <<>>
        /\ sheets = <<>>
  /\ (Compared /\ pc # "ConfigurationError") => (df1.has_key /\ df2.has_key)
  /\ sheets # <<>> => (df1.has_key /\ df2.has_key)

\* the key column is in table 1 and not in table 2
C8_Witness ==
  /\ pc = "ConfigurationError"
  /\ df1.has_key
  /\ ~df2.has_key

\* C9: save_report completes on every result compare_files returns, an
\* empty summary included, and writes the sheets SUMMARY,
\* DETAILED_MISMATCHES and MISSING_KEYS, SUMMARY ascending by percentage.
C9_ReportRendered ==
  /\ pc # "KeyErrorSort"
  /\ pc = "saved" =>
        /\ Len(sheets) = 3
        /\ sheets[1].name = "SUMMARY"
        /\ sheets[2].name = "DETAILED_MISMATCHES"
        /\ sheets[3].name = "MISSING_KEYS"
        /\ \A n \in 1..Len(sheets[1].rows) - 1 :
              sheets[1].rows[n].match_percentage
                 <= sheets[1].rows[n + 1].match_percentage

\* C10: in a result, each summary row has matched + mismatched = total =
\* the size of the column universe, as many mismatched columns as the key
\* has mismatch rows; no key with a missing row has a mismatch row; summary
\* and missing rows ascend by key, mismatch rows by (key, column).
C10_RowInvariants ==
  Returned =>
     /\ \A n \in 1..Len(summary_rows) :
          LET row == summary_rows[n] IN
          /\ row.matched_columns + row.mismatched_columns = row.total_columns
          /\ row.total_columns = Cardinality(df1.columns \cup df2.columns)
          /\ row.mismatched_columns
                = Cardinality(RowsOfKey(detailed_rows, row.key))
     /\ \A n \in 1..Len(missing_rows) :
          RowsOfKey(detailed_rows, missing_rows[n].key) = {}
     /\ \A n \in 1..Len(summary_rows) - 1 :
          summary_rows[n].key < summary_rows[n + 1].key
     /\ \A n \in 1..Len(missing_rows) - 1 :
          missing_rows[n].key < missing_rows[n + 1].key
     /\ \A n \in 1..Len(detailed_rows) - 1 :
          LET a == detailed_rows[n]
              b == detailed_rows[n + 1]
          IN \/ a.key < b.key
             \/ a.key = b.key /\ ColPos(a.column_name) < ColPos(b.column_name)

\* two keys compared, each with a mismatch row
C10_Witness ==
  /\ Returned
  /\ Len(summary_rows) >= 2
  /\ Len(detailed_rows) >= 2
====
